---- MODULE Spec2Model ----
(***************************************************************************)
(* Model of backend/chat backened_version_3.0.py: the Flask-SocketIO chat  *)
(* relay.  State: the membership dict users_in_rooms, the transport's      *)
(* broadcast groups, the handlers suspended in a gevent .get(), and the    *)
(* record of what the handler that ran last did (its effects, in code      *)
(* order).                                                                 *)
(***************************************************************************)
EXTENDS Integers, Sequences, FiniteSets, Bags, TLC

VARIABLES
    conn,            \* sid -> "new" | "open" | "closed": the socket's life
    subs,            \* sid -> rooms the transport has it subscribed to (join_room/leave_room)
    users_in_rooms,  \* the dict of line 63, in key insertion order: <<[room, users]>>
    db,              \* TRUE when firestore.Client() was built (lines 36-45), FALSE for db = None
    model,           \* TRUE when the Gemini model was built (lines 47-60), FALSE for model = None
    store,           \* the documents of the chat_messages collection
    tasks,           \* bag of handlers suspended in gevent.spawn(...).get()
    last             \* the handler that took the latest step, with its effects so far

vars == <<conn, subs, users_in_rooms, db, model, store, tasks, last>>

(***************************************************************************)
(* Bounds and input domains.                                               *)
(***************************************************************************)
MaxTasks == 1        \* handlers suspended at the same time
MaxPending == 2      \* the same, where handlers of two connections overlap
MaxStored == 24      \* documents in the collection when the server starts
HistoryLimit == 20   \* .limit(20), line 160

None == "<None>"     \* data.get(k) of a missing key
Sids == {"c1", "c2"}
RoomNames == {"r1", "r2"}    \* rooms are not named after a socket id
UserIds == {"u1", "c1"}     \* a client may well send its own sid as userId
Usernames == {"Alice"}
Texts == {"hello"}
NoFields == [room |-> None, userId |-> None, username |-> None, message |-> None]

\* Python truthiness of a request field: `not x` holds of None and of "".
Falsy(x) == x \in {None, ""}

\* Requests: every valid one, and the first valid one with each field in
\* turn missing or empty.
JoinRequest(r, u, n) == [NoFields EXCEPT !.room = r, !.userId = u, !.username = n]
LeaveRequest(r, u) == [NoFields EXCEPT !.room = r, !.userId = u]
SendRequest(r, u, n, m) == [room |-> r, userId |-> u, username |-> n, message |-> m]

JoinData ==
    {JoinRequest(r, u, n) : r \in RoomNames, u \in UserIds, n \in Usernames}
    \cup {JoinRequest(None, "u1", "Alice"), JoinRequest("r1", "", "Alice"),
          JoinRequest("r1", "u1", None)}
LeaveData ==
    {LeaveRequest(r, u) : r \in RoomNames, u \in UserIds}
    \cup {LeaveRequest("", "u1"), LeaveRequest("r1", None)}
SendData ==
    {SendRequest(r, u, n, m) : r \in RoomNames, u \in UserIds, n \in Usernames, m \in Texts}
    \cup {SendRequest("", "u1", "Alice", "hello"), SendRequest("r1", None, "Alice", "hello"),
          SendRequest("r1", "u1", "", "hello"), SendRequest("r1", "u1", "Alice", None),
          SendRequest("r1", "u1", "Alice", "")}

(***************************************************************************)
(* The message store: Firestore's chat_messages collection.                *)
(***************************************************************************)
\* Document i of the initial collection.  Timestamps are not in id order
\* and some documents share one.  Every fifth document was written without
\* moderation fields.
StoredDoc(i) ==
    [id |-> i,
     room |-> IF i % 8 = 0 THEN "r2" ELSE "r1",
     userId |-> IF i % 2 = 0 THEN "u1" ELSE "c1",
     username |-> "Alice",
     message |-> "hello",
     timestamp |-> ((i * 5) % 29) \div 2,
     moderation_status |-> IF i % 5 = 0 THEN None ELSE "safe",
     moderation_reason |-> IF i % 5 = 0 THEN None ELSE "N/A"]

\* A collection holding more than HistoryLimit documents of one room, some of
\* them with equal timestamps.
FullStore == {StoredDoc(i) : i \in 1..MaxStored}

\* How the server can come up: with or without the store client (lines
\* 36-45), with or without the classifier (lines 47-60), on a fresh or on a
\* used collection.
Deployments ==
    {[db |-> TRUE, model |-> TRUE, store |-> FullStore],
     [db |-> FALSE, model |-> FALSE, store |-> {}]}

\* order_by('timestamp'): ascending timestamp, equal timestamps by document id.
Before(d, e) == d.timestamp < e.timestamp \/ (d.timestamp = e.timestamp /\ d.id < e.id)

RECURSIVE OrderBy(_)
OrderBy(S) ==
    IF S = {} THEN <<>>
    ELSE LET first == CHOOSE d \in S : \A e \in S \ {d} : Before(d, e)
         IN <<first>> \o OrderBy(S \ {first})

Limit(s, n) == SubSeq(s, 1, IF Len(s) < n THEN Len(s) ELSE n)

\* A query that forgets the where clause.
QueryRoom_AnyRoom(r) == Limit(OrderBy(store), HistoryLimit)

\* messages_ref.stream() of line 160-163: where room == r, order_by timestamp, limit 20.
QueryRoom(r) == Limit(OrderBy({d \in store : d.room = r}), HistoryLimit)

\* datetime.isoformat(): a string rendering of the instant, not the instant itself.
isoformat(t) == <<"iso", t>>

\* lines 167-174: the dict sent for one stored document.
HistoryEntry(d) ==
    [userId |-> d.userId,
     username |-> d.username,
     message |-> d.message,
     timestamp |-> isoformat(d.timestamp),
     moderation_status |-> IF d.moderation_status = None THEN "N/A" ELSE d.moderation_status,
     moderation_reason |-> IF d.moderation_reason = None THEN "N/A" ELSE d.moderation_reason]

History(docs) == [i \in 1..Len(docs) |-> HistoryEntry(docs[i])]

(***************************************************************************)
(* users_in_rooms: a dict of dicts, kept in key insertion order.           *)
(***************************************************************************)
EmptyDict == [u \in {} |-> ""]
HasRoom(uir, room) == \E i \in 1..Len(uir) : uir[i].room = room
UsersOf(uir, room) == uir[CHOOSE i \in 1..Len(uir) : uir[i].room = room].users
IsMember(uir, room, uid) == HasRoom(uir, room) /\ uid \in DOMAIN UsersOf(uir, room)

\* A write that starts the room's dict afresh, without line 148's test.
SetUser_FreshRoom(uir, room, uid, name) ==
    LET base == IF HasRoom(uir, room) THEN uir
                ELSE Append(uir, [room |-> room, users |-> EmptyDict])
    IN [i \in 1..Len(base) |->
          IF base[i].room = room
          THEN [base[i] EXCEPT !.users = [u \in {uid} |-> name]]
          ELSE base[i]]

\* A write that records the user under every room there is.
SetUser_EveryRoom(uir, room, uid, name) ==
    LET base == IF HasRoom(uir, room) THEN uir
                ELSE Append(uir, [room |-> room, users |-> EmptyDict])
    IN [i \in 1..Len(base) |->
          [base[i] EXCEPT !.users =
              [u \in DOMAIN base[i].users \cup {uid} |->
                  IF u = uid THEN name ELSE base[i].users[u]]]]

\* lines 148-150
SetUser(uir, room, uid, name) ==
    LET base == IF HasRoom(uir, room) THEN uir
                ELSE Append(uir, [room |-> room, users |-> EmptyDict])
    IN [i \in 1..Len(base) |->
          IF base[i].room = room
          THEN [base[i] EXCEPT !.users =
                  [u \in DOMAIN base[i].users \cup {uid} |->
                      IF u = uid THEN name ELSE base[i].users[u]]]
          ELSE base[i]]

\* del users[k] (line 128) and users_in_rooms[room].pop(k) (line 199)
DelUser(uir, room, uid) ==
    [i \in 1..Len(uir) |->
       IF uir[i].room = room
       THEN [uir[i] EXCEPT !.users = [u \in DOMAIN uir[i].users \ {uid} |-> uir[i].users[u]]]
       ELSE uir[i]]

(***************************************************************************)
(* The transport: whom an emit reaches.                                    *)
(***************************************************************************)
\* emit(..., room=to, skip_sid=skip): every open connection that is `to`
\* itself or is subscribed to the group `to`, except `skip`.
Recipients(cn, sb, to, skip) ==
    {c \in Sids : cn[c] = "open" /\ (c = to \/ to \in sb[c])} \ {skip}

Emit(cn, sb, event, data, to, skip) ==
    [op |-> "emit", event |-> event, data |-> data, to |-> to, skip_sid |-> skip,
     recipients |-> Recipients(cn, sb, to, skip)]

\* What a handler did, in code order.
SubscribeEffect(room) == [op |-> "join_room", room |-> room]
UnsubscribeEffect(room) == [op |-> "leave_room", room |-> room]
SetUserEffect(room, uid, name) == [op |-> "set_user", room |-> room, userId |-> uid, username |-> name]
DelUserEffect(room, uid) == [op |-> "del_user", room |-> room, userId |-> uid]
SpawnEffect(target, arg) == [op |-> "spawn", target |-> target, arg |-> arg]
StreamEffect(room, docs) == [op |-> "stream", room |-> room, docs |-> docs]
AddEffect(doc, ok) == [op |-> "add", doc |-> doc, ok |-> ok]
GetEffect(value) == [op |-> "get", value |-> value]
RaiseEffect(exc, line) == [op |-> "raise", exc |-> exc, line |-> line]

NoEnv == [reply |-> None, add_ok |-> TRUE]

\* The latest step of a handler: whose request, which handler, the request's
\* data, whether the handler is suspended, returned or raised, everything it
\* did so far, and what the classifier and the store stood ready to answer.
StepRecord(sid, handler, data, status, effects, env) ==
    [sid |-> sid, handler |-> handler, data |-> data, status |-> status,
     effects |-> effects, env |-> env]

Suspended(sid, handler, data, effects) ==
    [sid |-> sid, handler |-> handler, data |-> data, effects |-> effects]

\* The exploration lets at most k handlers be suspended at the same time.
CanSuspend(k) == BagCardinality(tasks) < k

(***************************************************************************)
(* Moderation.                                                             *)
(***************************************************************************)
\* What model.generate_content can come back with.
SafeReply == [kind |-> "json", is_safe |-> TRUE, reason |-> "N/A"]
UnsafeReply == [kind |-> "json", is_safe |-> FALSE, reason |-> "profanity"]
BareUnsafeReply == [kind |-> "json", is_safe |-> FALSE, reason |-> None]
FailedReply == [kind |-> "exception", is_safe |-> None, reason |-> "timeout"]
\* A response whose text json.loads (line 99) cannot parse.
GarbledReply == [kind |-> "text", is_safe |-> None, reason |-> "Expecting value"]
Replies == {SafeReply, UnsafeReply, BareUnsafeReply, FailedReply, GarbledReply}

\* What the classifier and the store stand ready to answer one handler.
Envs == {[reply |-> SafeReply, add_ok |-> TRUE], [reply |-> SafeReply, add_ok |-> FALSE],
         [reply |-> UnsafeReply, add_ok |-> TRUE], [reply |-> FailedReply, add_ok |-> TRUE],
         [reply |-> BareUnsafeReply, add_ok |-> TRUE], [reply |-> GarbledReply, add_ok |-> TRUE]}

\* The body of moderate_message, lines 71-108: what awaiting it would yield.
moderate_message_body(mdl, reply) ==
    IF ~mdl THEN [status |-> "skipped", reason |-> "AI unavailable"]
    ELSE IF reply.kind # "json"
         THEN [status |-> "error", reason |-> "AI moderation failed: " \o reply.reason]
    ELSE IF reply.is_safe = TRUE THEN [status |-> "safe", reason |-> "N/A"]
    ELSE [status |-> "unsafe",
          reason |-> IF reply.reason = None THEN "Content flagged by AI." ELSE reply.reason]

\* moderate_message is declared `async def` (line 66): calling it runs none
\* of its body and returns a coroutine object.
moderate_message(mdl, reply) ==
    [type |-> "coroutine", awaited |-> moderate_message_body(mdl, reply)]

\* gevent.spawn(f, x).get(): the value f(x) returned.
SpawnGet(returned) == returned

\* obj['status'] is defined on a dict only; on anything else it raises TypeError.
Subscriptable(obj) == obj.type = "dict"

\* firestore.SERVER_TIMESTAMP (line 216) is a Sentinel instance, not a class:
\* isinstance(timestamp, firestore.SERVER_TIMESTAMP) of line 253 raises TypeError.
IsInstanceArgIsType == FALSE

(***************************************************************************)
(* Handlers.                                                               *)
(***************************************************************************)
\* lines 116-120
handle_connect(sid) ==
    /\ conn[sid] = "new"
    /\ conn' = [conn EXCEPT ![sid] = "open"]
    /\ last' = StepRecord(sid, "connect", NoFields, "returned",
                 <<Emit(conn', subs, "status", [message |-> "Connected to chat server"], sid, None)>>,
                 NoEnv)
    /\ UNCHANGED <<subs, users_in_rooms, db, model, store, tasks>>

\* line 127: the key looked up in each room's users.
DisconnectKey(sid) == sid

\* lines 126-131: the first room, in key order, whose users hold the key.
FirstRoomWith(uir, k) ==
    LET I == {i \in 1..Len(uir) : k \in DOMAIN uir[i].users}
    IN IF I = {} THEN None ELSE uir[CHOOSE i \in I : \A j \in I : i <= j].room

\* lines 128-129
DisconnectEffects(sid, room) ==
    IF room = None THEN <<>>
    ELSE <<DelUserEffect(room, DisconnectKey(sid)),
           Emit(conn, subs, "user_left", [userId |-> sid, username |-> "A user"], room, sid)>>

\* lines 122-131; when the handler is over the transport drops the socket
\* from every group.
handle_disconnect(sid) ==
    /\ conn[sid] = "open"
    /\ LET room == FirstRoomWith(users_in_rooms, DisconnectKey(sid))
       IN /\ users_in_rooms' = IF room = None THEN users_in_rooms
                               ELSE DelUser(users_in_rooms, room, DisconnectKey(sid))
          /\ last' = StepRecord(sid, "disconnect", NoFields, "returned",
                                DisconnectEffects(sid, room), NoEnv)
    /\ conn' = [conn EXCEPT ![sid] = "closed"]
    /\ subs' = [subs EXCEPT ![sid] = {}]
    /\ UNCHANGED <<db, model, store, tasks>>

\* A validation that forgets the display name.
JoinValid_IgnoresUsername(data) == ~(Falsy(data.room) \/ Falsy(data.userId))

\* line 143
JoinValid(data) == ~(Falsy(data.room) \/ Falsy(data.userId) \/ Falsy(data.username))

\* line 144: emit('error', ...) with no room goes to request.sid.
JoinRejected(sid) ==
    <<Emit(conn, subs, "error",
           [message |-> "Room, userId, and username are required to join."], sid, None)>>

\* A join that forgets skip_sid.
JoinEffects_NotifiesJoiner(sid, data, sb) ==
    <<SubscribeEffect(data.room),
      SetUserEffect(data.room, data.userId, data.username),
      Emit(conn, sb, "user_joined", [userId |-> data.userId, username |-> data.username],
           data.room, None)>>

\* lines 147-153, with sb the groups after join_room(room).
JoinEffects(sid, data, sb) ==
    <<SubscribeEffect(data.room),
      SetUserEffect(data.room, data.userId, data.username),
      Emit(conn, sb, "user_joined", [userId |-> data.userId, username |-> data.username],
           data.room, sid)>>

\* A report of the missing store sent to the whole room.
NoStoreEffects_ToRoom(sid, sb) ==
    <<Emit(conn, sb, "error",
           [message |-> "Firestore not available, cannot load history."],
           CHOOSE r \in sb[sid] : TRUE, None)>>

\* line 181
NoStoreEffects(sid, sb) ==
    <<Emit(conn, sb, "error",
           [message |-> "Firestore not available, cannot load history."], sid, None)>>

\* lines 133-163 and 180-181: up to the .get() of line 163, or to the end
\* when db is None.
handle_join_room(sid, data) ==
    /\ conn[sid] = "open"
    /\ IF ~JoinValid(data)
       THEN /\ last' = StepRecord(sid, "join_room", data, "returned", JoinRejected(sid), NoEnv)
            /\ UNCHANGED <<subs, users_in_rooms, tasks>>
       ELSE /\ subs' = [subs EXCEPT ![sid] = @ \cup {data.room}]
            /\ users_in_rooms' = SetUser(users_in_rooms, data.room, data.userId, data.username)
            /\ IF db
               THEN /\ LET eff == JoinEffects(sid, data, subs') \o <<SpawnEffect("stream", data.room)>>
                       IN /\ tasks' = tasks (+) SetToBag({Suspended(sid, "join_room", data, eff)})
                          /\ last' = StepRecord(sid, "join_room", data, "suspended", eff, NoEnv)
               ELSE /\ tasks' = tasks
                    /\ last' = StepRecord(sid, "join_room", data, "returned",
                                 JoinEffects(sid, data, subs') \o NoStoreEffects(sid, subs'), NoEnv)
    /\ UNCHANGED <<conn, db, model, store>>

\* lines 164-175: the query answered.
HistoryEffects(sid, room) ==
    LET docs == QueryRoom(room)
    IN <<StreamEffect(room, docs),
         Emit(conn, subs, "chat_history", [messages |-> History(docs)], sid, None)>>

\* A failure report sent to the room instead of the requester.
HistoryFailedEffects_ToRoom(sid, room) ==
    <<RaiseEffect("Exception", 163),
      Emit(conn, subs, "error",
           [message |-> "Failed to load chat history: " \o "store error"], room, None)>>

\* lines 177-179: the query raised.
HistoryFailedEffects(sid, room) ==
    <<RaiseEffect("Exception", 163),
      Emit(conn, subs, "error",
           [message |-> "Failed to load chat history: " \o "store error"], sid, None)>>

\* lines 163-179: a suspended join resumes with the query's outcome.
join_room_resume(t, ok) ==
    /\ BagIn(t, tasks)
    /\ t.handler = "join_room"
    /\ tasks' = tasks (-) SetToBag({t})
    /\ last' = StepRecord(t.sid, "join_room", t.data, "returned",
                 t.effects \o (IF ok THEN HistoryEffects(t.sid, t.data.room)
                               ELSE HistoryFailedEffects(t.sid, t.data.room)),
                 NoEnv)
    /\ UNCHANGED <<conn, subs, users_in_rooms, db, model, store>>

\* line 193
LeaveValid(data) == ~(Falsy(data.room) \/ Falsy(data.userId))

\* line 194
LeaveRejected(sid) ==
    <<Emit(conn, subs, "error",
           [message |-> "Room and userId are required to leave."], sid, None)>>

\* A leave that notifies the room whether or not the user was a member.
LeaveEffects_AlwaysNotifies(sid, data, sb) ==
    <<UnsubscribeEffect(data.room),
      Emit(conn, sb, "user_left", [userId |-> data.userId, username |-> None],
           data.room, None)>>

\* A leave that notifies the room before the leaver is out of it.
LeaveEffects_NotifiesLeaver(sid, data, sb) ==
    <<UnsubscribeEffect(data.room)>> \o
    (IF IsMember(users_in_rooms, data.room, data.userId)
     THEN <<DelUserEffect(data.room, data.userId),
            Emit(conn, subs, "user_left",
                 [userId |-> data.userId,
                  username |-> UsersOf(users_in_rooms, data.room)[data.userId]],
                 data.room, None)>>
     ELSE <<>>)

\* lines 197-203, with sb the groups after leave_room(room).
LeaveEffects(sid, data, sb) ==
    <<UnsubscribeEffect(data.room)>> \o
    (IF IsMember(users_in_rooms, data.room, data.userId)
     THEN <<DelUserEffect(data.room, data.userId),
            Emit(conn, sb, "user_left",
                 [userId |-> data.userId,
                  username |-> UsersOf(users_in_rooms, data.room)[data.userId]],
                 data.room, None)>>
     ELSE <<>>)

\* lines 184-203
handle_leave_room(sid, data) ==
    /\ conn[sid] = "open"
    /\ IF ~LeaveValid(data)
       THEN /\ last' = StepRecord(sid, "leave_room", data, "returned", LeaveRejected(sid), NoEnv)
            /\ UNCHANGED <<subs, users_in_rooms>>
       ELSE /\ subs' = [subs EXCEPT ![sid] = @ \ {data.room}]
            /\ users_in_rooms' = IF IsMember(users_in_rooms, data.room, data.userId)
                                 THEN DelUser(users_in_rooms, data.room, data.userId)
                                 ELSE users_in_rooms
            /\ last' = StepRecord(sid, "leave_room", data, "returned",
                                  LeaveEffects(sid, data, subs'), NoEnv)
    /\ UNCHANGED <<conn, db, model, store, tasks>>

\* A validation that forgets the text.
MessageValid_IgnoresText(data) ==
    ~(Falsy(data.room) \/ Falsy(data.userId) \/ Falsy(data.username))

\* line 218
MessageValid(data) ==
    ~(Falsy(data.room) \/ Falsy(data.userId) \/ Falsy(data.username) \/ Falsy(data.message))

\* line 219
MessageRejected(sid) ==
    <<Emit(conn, subs, "error",
           [message |-> "Room, userId, username, and message are required."], sid, None)>>

\* lines 229-237
MessageToSave(data, verdict) ==
    [id |-> Cardinality(store) + 1,
     room |-> data.room, userId |-> data.userId, username |-> data.username,
     message |-> data.message,
     timestamp |-> Cardinality(store) + 1,
     moderation_status |-> verdict.status, moderation_reason |-> verdict.reason]

\* lines 239-247
PersistEffects(sid, data, verdict, add_ok) ==
    IF ~db THEN <<>>
    ELSE IF add_ok THEN <<AddEffect(MessageToSave(data, verdict), TRUE)>>
    ELSE <<AddEffect(MessageToSave(data, verdict), FALSE),
           Emit(conn, subs, "error",
                [message |-> "Failed to save message: " \o "store error"], sid, None)>>

\* lines 249-258
BroadcastEffects(data, verdict) ==
    IF ~IsInstanceArgIsType THEN <<RaiseEffect("TypeError", 253)>>
    ELSE <<Emit(conn, subs, "receive_message",
                [userId |-> data.userId, username |-> data.username,
                 message |-> data.message, timestamp |-> "SERVER_TIMESTAMP",
                 moderation_status |-> verdict.status,
                 moderation_reason |-> verdict.reason],
                data.room, None)>>

\* lines 225-258: everything handle_message does once .get() has returned.
MessageEffects(sid, data, moderation_result, add_ok) ==
    IF ~Subscriptable(moderation_result) THEN <<RaiseEffect("TypeError", 226)>>
    ELSE PersistEffects(sid, data, moderation_result.value, add_ok)
         \o BroadcastEffects(data, moderation_result.value)

Raised(effects) == \E i \in 1..Len(effects) : effects[i].op = "raise" /\ effects[i].exc = "TypeError"

Added(effects) == {effects[i].doc : i \in {j \in 1..Len(effects) : effects[j].op = "add" /\ effects[j].ok}}

\* lines 206-259.  The greenlet of line 225 starts no I/O, it only calls
\* moderate_message, and the handler reads and writes no shared state
\* before line 239, so the whole handler is one step.
handle_message(sid, data, env) ==
    /\ conn[sid] = "open"
    /\ IF ~MessageValid(data)
       THEN /\ last' = StepRecord(sid, "send_message", data, "returned",
                                  MessageRejected(sid), NoEnv)
            /\ store' = store
       ELSE LET moderation_result == SpawnGet(moderate_message(model, env.reply))
                eff == <<SpawnEffect("moderate_message", data.message),
                         GetEffect(moderation_result)>>
                       \o MessageEffects(sid, data, moderation_result, env.add_ok)
            IN /\ store' = store \cup Added(eff)
               /\ last' = StepRecord(sid, "send_message", data,
                                     IF Raised(eff) THEN "raised" ELSE "returned",
                                     eff, env)
    /\ UNCHANGED <<conn, subs, users_in_rooms, db, model, tasks>>

\* lines 206-225, with the .get() of line 225 as the scheduling point it is:
\* the handler hands moderate_message to a greenlet and waits, and the hub
\* may run other handlers before it gets the value back.
handle_message_spawn(sid, data) ==
    /\ conn[sid] = "open"
    /\ IF ~MessageValid(data)
       THEN /\ last' = StepRecord(sid, "send_message", data, "returned",
                                  MessageRejected(sid), NoEnv)
            /\ tasks' = tasks
       ELSE LET eff == <<SpawnEffect("moderate_message", data.message)>>
            IN /\ tasks' = tasks (+) SetToBag({Suspended(sid, "send_message", data, eff)})
               /\ last' = StepRecord(sid, "send_message", data, "suspended", eff, NoEnv)
    /\ UNCHANGED <<conn, subs, users_in_rooms, db, model, store>>

\* lines 225-259: .get() hands the handler what moderate_message returned.
handle_message_resume(t, env) ==
    /\ BagIn(t, tasks)
    /\ t.handler = "send_message"
    /\ LET moderation_result == SpawnGet(moderate_message(model, env.reply))
           eff == t.effects \o <<GetEffect(moderation_result)>>
                  \o MessageEffects(t.sid, t.data, moderation_result, env.add_ok)
       IN /\ store' = store \cup Added(eff)
          /\ last' = StepRecord(t.sid, "send_message", t.data,
                                IF Raised(eff) THEN "raised" ELSE "returned", eff, env)
    /\ tasks' = tasks (-) SetToBag({t})
    /\ UNCHANGED <<conn, subs, users_in_rooms, db, model>>

Init ==
    /\ conn = [c \in Sids |-> "new"]
    /\ subs = [c \in Sids |-> {}]
    /\ users_in_rooms = <<>>
    /\ \E d \in Deployments : db = d.db /\ model = d.model /\ store = d.store
    /\ tasks = EmptyBag
    /\ last = StepRecord(None, "none", NoFields, "returned", <<>>, NoEnv)

\* One step of the server: the transport delivers an event to its handler,
\* or a suspended handler resumes.  J, L and S are the join_room, leave_room
\* and send_message payloads clients send, E what the classifier and the
\* store stand ready to answer, K how many handlers may be suspended at once.
Step(J, L, S, E, K) ==
    \/ \E sid \in Sids : handle_connect(sid)
    \/ \E sid \in Sids : handle_disconnect(sid)
    \/ \E sid \in Sids, data \in J :
          /\ (db /\ JoinValid(data)) => CanSuspend(K)
          /\ handle_join_room(sid, data)
    \/ \E t \in BagToSet(tasks), ok \in BOOLEAN : join_room_resume(t, ok)
    \/ \E sid \in Sids, data \in L : handle_leave_room(sid, data)
    \/ \E sid \in Sids, data \in S, env \in E : handle_message(sid, data, env)

\* The whole life of connections and rooms, with one valid and one invalid
\* message.
Next ==
    Step(JoinData, LeaveData,
         {SendRequest("r1", "u1", "Alice", "hello"), SendRequest("r1", "u1", "Alice", "")},
         {[reply |-> SafeReply, add_ok |-> TRUE]}, MaxTasks)

Spec == Init /\ [][Next]_vars

\* Every message payload under every answer of the classifier and the store,
\* with connections that join and leave as u1.
SendNext ==
    Step({JoinRequest(r, "u1", "Alice") : r \in RoomNames}, {LeaveRequest("r1", "u1")},
         SendData, Envs, MaxTasks)

SendSpec == Init /\ [][SendNext]_vars

\* The server with its scheduling points: a handler waiting in a .get()
\* (line 163, line 225) is suspended while handlers of other events run.
\* Two users, a room they share and a second room.
PendingNext ==
    \/ \E sid \in Sids : handle_connect(sid)
    \/ \E sid \in Sids : handle_disconnect(sid)
    \/ \E sid \in Sids,
          data \in {JoinRequest("r1", "u1", "Alice"), JoinRequest("r1", "c1", "Alice"),
                    JoinRequest("r2", "c1", "Alice")} :
          /\ db => CanSuspend(MaxPending)
          /\ handle_join_room(sid, data)
    \/ \E t \in BagToSet(tasks), ok \in BOOLEAN : join_room_resume(t, ok)
    \/ \E sid \in Sids, data \in {LeaveRequest("r1", "u1"), LeaveRequest("r1", "c1")} :
          handle_leave_room(sid, data)
    \/ \E sid \in Sids,
          data \in {SendRequest("r1", "u1", "Alice", "hello"),
                    SendRequest("r2", "c1", "Alice", "hello"),
                    SendRequest("r1", "u1", "Alice", None)} :
          /\ MessageValid(data) => CanSuspend(MaxPending)
          /\ handle_message_spawn(sid, data)
    \/ \E t \in BagToSet(tasks), env \in {[reply |-> SafeReply, add_ok |-> TRUE]} :
          handle_message_resume(t, env)

PendingSpec == Init /\ [][PendingNext]_vars

(***************************************************************************)
(* Claims.                                                                 *)
(***************************************************************************)
Present(x) == x \notin {None, ""}

\* The places of a handler's effects where it emitted `event`.
EmitsOf(effects, event) ==
    {i \in 1..Len(effects) : effects[i].op = "emit" /\ effects[i].event = event}

OpsOf(effects, op) == {i \in 1..Len(effects) : effects[i].op = op}

\* The open connections subscribed to a room's broadcast group.
Subscribers(room) == {c \in Sids : conn[c] = "open" /\ room \in subs[c]}

SendHandled == last.handler = "send_message" /\ last.status \in {"returned", "raised"}

ValidSendHandled ==
    /\ SendHandled
    /\ Present(last.data.room) /\ Present(last.data.userId)
    /\ Present(last.data.username) /\ Present(last.data.message)

\* The handler that ran last broadcast its message once, to the subscribers
\* of the target room and to nobody else, with the given verdict.
BroadcastWith(status, reason) ==
    /\ Cardinality(EmitsOf(last.effects, "receive_message")) = 1
    /\ \A i \in EmitsOf(last.effects, "receive_message") :
          /\ last.effects[i].to = last.data.room
          /\ last.effects[i].recipients = Subscribers(last.data.room)
          /\ last.effects[i].data.userId = last.data.userId
          /\ last.effects[i].data.username = last.data.username
          /\ last.effects[i].data.message = last.data.message
          /\ last.effects[i].data.moderation_status = status
          /\ last.effects[i].data.moderation_reason = reason

BroadcastSome == \E st \in {"safe", "unsafe", "error", "skipped"}, r \in
                    {"N/A", "profanity", "Content flagged by AI.", "AI unavailable",
                     "AI moderation failed: timeout"} : BroadcastWith(st, r)

\* C1: a send_message with room, userId, username or message missing or
\* empty makes handle_message emit exactly one error, addressed to and
\* reaching the sender alone, and do nothing else: no classifier call, no
\* store write, no receive_message.
C1_InvalidSendOnlyErrorsSender ==
    (SendHandled /\ \E f \in {"room", "userId", "username", "message"} : ~Present(last.data[f]))
    => /\ Len(last.effects) = 1
       /\ last.effects[1].op = "emit"
       /\ last.effects[1].event = "error"
       /\ last.effects[1].to = last.sid
       /\ last.effects[1].recipients = {last.sid}
       /\ last.status = "returned"

C1_Witness ==
    /\ SendHandled
    /\ last.data.message = ""
    /\ last.sid = "c1"
    /\ "c2" \in Subscribers(last.data.room)
    /\ EmitsOf(last.effects, "error") = {1}

\* C2: every send_message with all four fields non-empty ends with exactly
\* one receive_message carrying the author's userId, username, text and the
\* verdict, delivered to every connection subscribed to the room (the sender
\* included) and to no other; when the classifier answers is_safe = true the
\* verdict is safe with reason "N/A".
C2_ValidSendIsBroadcast ==
    ValidSendHandled
    => /\ BroadcastSome
       /\ (model /\ last.env.reply = SafeReply) => BroadcastWith("safe", "N/A")

\* C3: a valid send_message whose store write fails is still broadcast to
\* the whole room, and the error of the failed write is addressed to the
\* sender and reaches nobody else.
C3_FailedWriteStillBroadcast ==
    (ValidSendHandled /\ db /\ ~last.env.add_ok)
    => /\ BroadcastSome
       /\ Cardinality(EmitsOf(last.effects, "error")) = 1
       /\ \A i \in EmitsOf(last.effects, "error") :
             last.effects[i].to = last.sid /\ last.effects[i].recipients \subseteq {last.sid}

\* C4: a valid send_message handled while the classifier is not configured
\* (model is None) is broadcast to the room with status skipped and reason
\* "AI unavailable".
C4_UnmoderatedStillBroadcast ==
    (ValidSendHandled /\ ~model) => BroadcastWith("skipped", "AI unavailable")

\* C5: a valid message whose verdict is unsafe or error is not suppressed:
\* it is written to the store when the store accepts the write, and it is
\* broadcast to the room with that verdict and the classifier's reason.
C5_FlaggedStillDelivered ==
    (ValidSendHandled /\ model /\ last.env.reply \in {UnsafeReply, FailedReply})
    => /\ last.env.reply = UnsafeReply => BroadcastWith("unsafe", "profanity")
       /\ last.env.reply = FailedReply => BroadcastWith("error", "AI moderation failed: timeout")
       /\ (db /\ last.env.add_ok)
             => \E d \in store : /\ d.room = last.data.room
                                 /\ d.message = last.data.message
                                 /\ d.userId = last.data.userId
                                 /\ d.moderation_status \in {"unsafe", "error"}

\* A valid join_room has just run up to its history query (or to its end,
\* when there is no store).
JoinStarted ==
    /\ last.handler = "join_room"
    /\ Present(last.data.room) /\ Present(last.data.userId) /\ Present(last.data.username)
    /\ (last.status = "suspended" \/ ~db)

\* A valid join_room has run to its end.
JoinFinished ==
    /\ last.handler = "join_room"
    /\ Present(last.data.room) /\ Present(last.data.userId) /\ Present(last.data.username)
    /\ last.status = "returned"

\* C6: when a connection that has just joined room r as user u disconnects
\* without leaving, handle_disconnect takes u out of r's membership and
\* every remaining subscriber of r receives exactly one user_left naming u.
C6_DisconnectRemovesJoinedUser ==
    [][(JoinStarted /\ last'.handler = "disconnect" /\ last'.sid = last.sid)
        => /\ ~IsMember(users_in_rooms', last.data.room, last.data.userId)
           /\ Cardinality(EmitsOf(last'.effects, "user_left")) = 1
           /\ \A i \in EmitsOf(last'.effects, "user_left") :
                 /\ last'.effects[i].data.userId = last.data.userId
                 /\ last'.effects[i].recipients = Subscribers(last.data.room) \ {last.sid}]_vars

\* The history a chat_history emit carries is the answer of the handler's
\* query, every document of it stored under the joined room.
HistoryOfRoom(e) ==
    \A k \in OpsOf(last.effects, "stream") :
        LET docs == last.effects[k].docs
            m == e.data.messages
        IN /\ Len(m) = Len(docs)
           /\ \A j \in 1..Len(docs) :
                 /\ docs[j] \in store
                 /\ docs[j].room = last.data.room
                 /\ m[j].userId = docs[j].userId
                 /\ m[j].message = docs[j].message
                 /\ m[j].timestamp = isoformat(docs[j].timestamp)

\* C7, as claimed: every valid join_room ends with one chat_history that
\* the joining connection and nobody else receives, of at most 20 messages
\* of the joined room in strictly ascending timestamp order.
C7_AlwaysStrictHistory ==
    JoinFinished
    => /\ Cardinality(EmitsOf(last.effects, "chat_history")) = 1
       /\ \A i \in EmitsOf(last.effects, "chat_history") :
             LET e == last.effects[i]
                 m == e.data.messages
             IN /\ e.to = last.sid
                /\ e.recipients = {last.sid}
                /\ Len(m) <= 20
                /\ HistoryOfRoom(e)
                /\ \A j \in 1..(Len(m) - 1) : m[j].timestamp[2] < m[j + 1].timestamp[2]

\* C7, amended: a valid join_room handled with the store available and
\* whose query succeeds ends with one chat_history, addressed to the joining
\* connection alone and reaching it if it is still connected, of at most 20
\* messages of the joined room in non-decreasing timestamp order; without
\* the store, or when the query fails, no chat_history is sent and the
\* joining connection is sent one error.
C7_HistoryOnJoin ==
    JoinFinished
    => IF db /\ OpsOf(last.effects, "raise") = {}
       THEN /\ Cardinality(EmitsOf(last.effects, "chat_history")) = 1
            /\ \A i \in EmitsOf(last.effects, "chat_history") :
                  LET e == last.effects[i]
                      m == e.data.messages
                  IN /\ e.to = last.sid
                     /\ e.recipients = (IF conn[last.sid] = "open" THEN {last.sid} ELSE {})
                     /\ Len(m) <= 20
                     /\ HistoryOfRoom(e)
                     /\ \A j \in 1..(Len(m) - 1) : m[j].timestamp[2] <= m[j + 1].timestamp[2]
       ELSE /\ EmitsOf(last.effects, "chat_history") = {}
            /\ Cardinality(EmitsOf(last.effects, "error")) = 1
            /\ \A i \in EmitsOf(last.effects, "error") : last.effects[i].to = last.sid

C7_Witness ==
    /\ JoinFinished
    /\ last.sid = "c1"
    /\ "c2" \in Subscribers(last.data.room)
    /\ \E i \in EmitsOf(last.effects, "chat_history") :
          LET m == last.effects[i].data.messages
          IN /\ Len(m) = 20
             /\ last.effects[i].recipients = {"c1"}
             /\ \E j \in 1..19 : m[j].timestamp = m[j + 1].timestamp

\* C8, as claimed: a leave_room for a (room, userId) pair that is not in
\* the membership emits no user_left and no error and leaves the membership
\* unchanged.
C8_AnyAbsentLeaveIsSilent ==
    [][(last'.handler = "leave_room"
        /\ ~IsMember(users_in_rooms, last'.data.room, last'.data.userId))
        => /\ EmitsOf(last'.effects, "user_left") = {}
           /\ EmitsOf(last'.effects, "error") = {}
           /\ users_in_rooms' = users_in_rooms]_vars

\* C8, amended: a leave_room with room and userId both non-empty, for a pair
\* that is not in the membership, emits no user_left and no error and leaves
\* the membership unchanged.
C8_AbsentLeaveIsSilent ==
    [][(last'.handler = "leave_room"
        /\ Present(last'.data.room) /\ Present(last'.data.userId)
        /\ ~IsMember(users_in_rooms, last'.data.room, last'.data.userId))
        => /\ EmitsOf(last'.effects, "user_left") = {}
           /\ EmitsOf(last'.effects, "error") = {}
           /\ users_in_rooms' = users_in_rooms]_vars

C8_Witness ==
    /\ last.handler = "leave_room"
    /\ last.sid = "c1"
    /\ Present(last.data.room) /\ Present(last.data.userId)
    /\ OpsOf(last.effects, "del_user") = {}
    /\ "c2" \in Subscribers(last.data.room)
    /\ HasRoom(users_in_rooms, last.data.room)
    /\ DOMAIN UsersOf(users_in_rooms, last.data.room) # {}

\* C9: a successful join_room sends one user_joined with the joiner's
\* userId and username to every other connection subscribed to the room and
\* not to the joiner, after the joiner was recorded in the room's membership.
C9_JoinNotifiesOthers ==
    [][JoinStarted'
        => LET eff == last'.effects
           IN /\ Cardinality(EmitsOf(eff, "user_joined")) = 1
              /\ \A i \in EmitsOf(eff, "user_joined") :
                    /\ eff[i].data = [userId |-> last'.data.userId,
                                      username |-> last'.data.username]
                    /\ eff[i].recipients = Subscribers(last'.data.room) \ {last'.sid}
                    /\ \E k \in OpsOf(eff, "set_user") :
                          /\ k < i
                          /\ eff[k].room = last'.data.room
                          /\ eff[k].userId = last'.data.userId
                    /\ \A k \in EmitsOf(eff, "error") \cup EmitsOf(eff, "chat_history") : i < k
              /\ IsMember(users_in_rooms', last'.data.room, last'.data.userId)
              /\ UsersOf(users_in_rooms', last'.data.room)[last'.data.userId]
                    = last'.data.username]_vars

C9_Witness ==
    /\ JoinStarted
    /\ last.sid = "c1"
    /\ \E i \in EmitsOf(last.effects, "user_joined") :
          /\ last.effects[i].recipients = {"c2"}
          /\ last.data.room \in subs["c1"]

\* Every error a handler emitted is addressed to the connection whose
\* request it was handling, never to a room, and reaches nobody else.
ErrorsToRequester(sid, effects) ==
    \A i \in EmitsOf(effects, "error") :
        /\ effects[i].to = sid
        /\ effects[i].to \notin RoomNames
        /\ effects[i].skip_sid = None
        /\ effects[i].recipients \subseteq {sid}

\* C10: every error event any handler emits is addressed to the one
\* connection whose request caused it and never to a room's broadcast group,
\* and a step of one connection's handler neither ends a suspended handler
\* of another connection nor closes another connection.
C10_ErrorsStayWithRequester ==
    /\ [](/\ ErrorsToRequester(last.sid, last.effects)
          /\ \A t \in BagToSet(tasks) : ErrorsToRequester(t.sid, t.effects))
    /\ [][/\ \A t \in BagToSet(tasks) :
                t.sid # last'.sid => CopiesIn(t, tasks') >= CopiesIn(t, tasks)
          /\ \A c \in Sids \ {last'.sid} : conn'[c] = conn[c]]_vars

C10_Witness ==
    /\ JoinFinished
    /\ last.sid = "c1"
    /\ OpsOf(last.effects, "raise") # {}
    /\ EmitsOf(last.effects, "error") # {}
    /\ "c2" \in Subscribers(last.data.room)

\* What the contract of moderate_message promises for a classifier that is
\* configured or not and answers with `reply`.
ClaimedVerdict(mdl, reply, v) ==
    /\ v.status \in {"safe", "unsafe", "error", "skipped"}
    /\ ~mdl => v = [status |-> "skipped", reason |-> "AI unavailable"]
    /\ (mdl /\ reply.kind = "json" /\ reply.is_safe = TRUE)
          => v = [status |-> "safe", reason |-> "N/A"]
    /\ (mdl /\ reply.kind = "json" /\ reply.is_safe = FALSE)
          => /\ v.status = "unsafe"
             /\ v.reason = (IF reply.reason = None THEN "Content flagged by AI." ELSE reply.reason)
    /\ (mdl /\ reply.kind # "json")
          => v = [status |-> "error", reason |-> "AI moderation failed: " \o reply.reason]

\* The body of moderate_message keeps the contract: what awaiting the
\* coroutine would yield is the promised verdict.
AwaitedVerdictKeepsContract ==
    ValidSendHandled
    => \A i \in OpsOf(last.effects, "get") :
          /\ last.effects[i].value.type = "coroutine"
          /\ ClaimedVerdict(model, last.env.reply, last.effects[i].value.awaited)

\* C11: moderate_message never raises and returns skipped / "AI unavailable"
\* without a classifier, safe / "N/A" on is_safe = true, unsafe with the
\* classifier's reason (or the default) on is_safe = false, and error with
\* "AI moderation failed: ..." when the call or the parsing fails; and what
\* handle_message gets back from it is that status/reason pair.
C11_HandlerReceivesVerdict ==
    ValidSendHandled
    => /\ Cardinality(OpsOf(last.effects, "get")) = 1
       /\ \A i \in OpsOf(last.effects, "get") :
             /\ last.effects[i].value.type = "dict"
             /\ ClaimedVerdict(model, last.env.reply, last.effects[i].value.value)

\* C12: a join_room with room, userId or username missing or empty emits
\* exactly one error, addressed to and reaching the requesting connection
\* alone, and changes nothing: no subscription, no membership entry, no
\* user_joined, no history query.
C12_InvalidJoinChangesNothing ==
    [][(last'.handler = "join_room"
        /\ \E f \in {"room", "userId", "username"} : ~Present(last'.data[f]))
        => /\ Len(last'.effects) = 1
           /\ EmitsOf(last'.effects, "error") = {1}
           /\ last'.effects[1].to = last'.sid
           /\ last'.effects[1].recipients = {last'.sid}
           /\ last'.status = "returned"
           /\ subs' = subs
           /\ users_in_rooms' = users_in_rooms
           /\ tasks' = tasks
           /\ store' = store]_vars

C12_Witness ==
    /\ last.handler = "join_room"
    /\ last.sid = "c1"
    /\ last.data.username = None
    /\ Present(last.data.room) /\ Present(last.data.userId)
    /\ "c2" \in Subscribers(last.data.room)
    /\ last.data.room \notin subs["c1"]
    /\ ~IsMember(users_in_rooms, last.data.room, last.data.userId)
    /\ EmitsOf(last.effects, "error") = {1}

\* C13: a valid join_room handled without the store, or whose history query
\* fails, still joins: the connection is subscribed to the room, the user is
\* recorded, the other subscribers got user_joined; and it ends with exactly
\* one error, addressed to the joining connection and reaching nobody else,
\* and no chat_history.
C13_JoinSurvivesHistoryFailure ==
    /\ [][JoinStarted'
           => /\ last'.data.room \in subs'[last'.sid]
              /\ IsMember(users_in_rooms', last'.data.room, last'.data.userId)
              /\ \A i \in EmitsOf(last'.effects, "user_joined") :
                    last'.effects[i].recipients = Subscribers(last'.data.room) \ {last'.sid}]_vars
    /\ []((JoinFinished /\ (~db \/ OpsOf(last.effects, "raise") # {}))
           => LET eff == last.effects
              IN /\ eff[1] = SubscribeEffect(last.data.room)
                 /\ eff[2] = SetUserEffect(last.data.room, last.data.userId, last.data.username)
                 /\ EmitsOf(eff, "user_joined") = {3}
                 /\ EmitsOf(eff, "chat_history") = {}
                 /\ Cardinality(EmitsOf(eff, "error")) = 1
                 /\ \A i \in EmitsOf(eff, "error") :
                       /\ i > 3
                       /\ eff[i].to = last.sid
                       /\ eff[i].recipients
                             = (IF conn[last.sid] = "open" THEN {last.sid} ELSE {}))

C13_Witness ==
    /\ JoinFinished
    /\ ~db
    /\ last.sid = "c1"
    /\ last.data.room \in subs["c1"]
    /\ IsMember(users_in_rooms, last.data.room, last.data.userId)
    /\ \E i \in EmitsOf(last.effects, "user_joined") : last.effects[i].recipients = {"c2"}
    /\ \E i \in EmitsOf(last.effects, "error") : last.effects[i].recipients = {"c1"}

\* C14: when the joined room holds more than 20 stored messages, the
\* chat_history of the join carries the 20 with the latest timestamps, in
\* ascending timestamp order: no stored message of the room that was left
\* out is later than one that was sent.
C14_HistoryIsLatest20 ==
    (JoinFinished /\ Cardinality({d \in store : d.room = last.data.room}) > 20)
    => \A k \in OpsOf(last.effects, "stream") :
          LET docs == last.effects[k].docs
              sent == {docs[j] : j \in 1..Len(docs)}
          IN /\ Len(docs) = 20
             /\ \A j \in 1..(Len(docs) - 1) : docs[j].timestamp <= docs[j + 1].timestamp
             /\ \A d \in {e \in store : e.room = last.data.room} \ sent :
                   \A e \in sent : d.timestamp <= e.timestamp

\* The rooms whose membership holds the user.
RoomsOf(uir, uid) == {uir[i].room : i \in {j \in 1..Len(uir) : uid \in DOMAIN uir[j].users}}

SingleRoomIn(uir) == \A u \in UserIds : Cardinality(RoomsOf(uir, u)) <= 1

\* C15, as claimed: after any sequence of events each user identifier
\* appears in the membership of at most one room.
C15_SingleRoomPerUser == SingleRoomIn(users_in_rooms)

\* C15, amended: each user identifier stays in at most one room as long as
\* no join_room names a user that is recorded under another room; such a
\* join is accepted and leaves the user recorded under both rooms.
C15_SingleRoomUnlessRejoined ==
    [][LET elsewhere == RoomsOf(users_in_rooms, last'.data.userId) \ {last'.data.room}
       IN IF JoinStarted' /\ elsewhere # {}
          THEN RoomsOf(users_in_rooms', last'.data.userId)
                  = RoomsOf(users_in_rooms, last'.data.userId) \cup {last'.data.room}
          ELSE SingleRoomIn(users_in_rooms) => SingleRoomIn(users_in_rooms')]_vars

C15_Witness ==
    /\ JoinStarted
    /\ last.data.room = "r2"
    /\ RoomsOf(users_in_rooms, last.data.userId) = {"r2"}
    /\ HasRoom(users_in_rooms, "r1")
    /\ RoomsOf(users_in_rooms, "c1") = {"r1"}
    /\ last.data.userId # "c1"
    /\ SingleRoomIn(users_in_rooms)

\* C16: a leave_room for a (room, userId) pair that is in the membership
\* removes the entry and no other, unsubscribes the requesting connection
\* from the room, and sends exactly one user_left, with that userId and the
\* name recorded for it, to every connection still subscribed to the room.
C16_LeaveRemovesAndNotifies ==
    [][(last'.handler = "leave_room"
        /\ IsMember(users_in_rooms, last'.data.room, last'.data.userId))
        => /\ ~IsMember(users_in_rooms', last'.data.room, last'.data.userId)
           /\ \A r \in RoomNames, u \in UserIds :
                 <<r, u>> # <<last'.data.room, last'.data.userId>>
                 => (IsMember(users_in_rooms', r, u) <=> IsMember(users_in_rooms, r, u))
           /\ last'.data.room \notin subs'[last'.sid]
           /\ Cardinality(EmitsOf(last'.effects, "user_left")) = 1
           /\ \A i \in EmitsOf(last'.effects, "user_left") :
                 /\ last'.effects[i].data
                       = [userId |-> last'.data.userId,
                          username |-> UsersOf(users_in_rooms, last'.data.room)[last'.data.userId]]
                 /\ last'.effects[i].recipients
                       = {c \in Sids : conn'[c] = "open" /\ last'.data.room \in subs'[c]}
                 /\ last'.sid \notin last'.effects[i].recipients]_vars

C16_Witness ==
    /\ last.handler = "leave_room"
    /\ last.sid = "c1"
    /\ OpsOf(last.effects, "del_user") # {}
    /\ ~IsMember(users_in_rooms, last.data.room, last.data.userId)
    /\ DOMAIN UsersOf(users_in_rooms, last.data.room) # {}
    /\ \E i \in EmitsOf(last.effects, "user_left") :
          /\ last.effects[i].recipients = {"c2"}
          /\ last.effects[i].data.username = "Alice"

\* A send_message of another connection, for another room, is waiting in
\* its .get() while the handler that ran last finished.
OtherSendPending ==
    \E t \in BagToSet(tasks) :
        t.handler = "send_message" /\ t.sid # last.sid /\ t.data.room # last.data.room

\* C17: while the handler of a message for room A is suspended, a valid
\* message another connection sends to room B is moderated, written to the
\* store when there is one, and broadcast to room B.
C17_PendingSendBlocksNobody ==
    (ValidSendHandled /\ OtherSendPending)
    => /\ \A i \in OpsOf(last.effects, "get") : last.effects[i].value.type = "dict"
       /\ db => \E i \in OpsOf(last.effects, "add") :
                   last.effects[i].ok /\ last.effects[i].doc \in store
       /\ BroadcastSome

\* C18: the events of one connection take effect in arrival order, each
\* one's effects complete before the next one's begin: while a handler of a
\* connection is suspended the only step taken for that connection is that
\* handler's resumption, and a message the connection sent before its
\* leave_room was broadcast before the leave's user_left.
C18_ConnectionEventsInOrder ==
    [][/\ (\E t \in BagToSet(tasks) : t.sid = last'.sid)
             => \E t \in BagToSet(tasks) :
                   /\ t.sid = last'.sid
                   /\ CopiesIn(t, tasks') < CopiesIn(t, tasks)
                   /\ BagCardinality(tasks') < BagCardinality(tasks)
       /\ (/\ ValidSendHandled
           /\ last'.handler = "leave_room"
           /\ last'.sid = last.sid
           /\ last'.data.room = last.data.room
           /\ EmitsOf(last'.effects, "user_left") # {})
             => EmitsOf(last.effects, "receive_message") # {}]_vars

\* The name recorded for a user in a room, None when there is no entry.
NameIn(uir, room, uid) ==
    IF IsMember(uir, room, uid) THEN UsersOf(uir, room)[uid] ELSE None

\* C19: whatever handlers are suspended, no membership update is lost.  A
\* step changes the entry of (room, user) only when it is the join_room or
\* leave_room naming that pair or the disconnect that found it, and then
\* the join leaves the entry recorded and the others leave it removed; every
\* other entry is as it was.  In particular a join into a room in which the
\* join of another user is still pending leaves both users recorded.
C19_NoLostMembershipUpdate ==
    [][/\ \A r \in RoomNames, u \in UserIds :
             NameIn(users_in_rooms', r, u) # NameIn(users_in_rooms, r, u)
             => \/ /\ last'.handler = "join_room" /\ (last'.status = "suspended" \/ ~db)
                   /\ last'.data.room = r /\ last'.data.userId = u
                   /\ NameIn(users_in_rooms', r, u) = last'.data.username
                \/ /\ last'.handler = "leave_room"
                   /\ last'.data.room = r /\ last'.data.userId = u
                   /\ NameIn(users_in_rooms', r, u) = None
                \/ /\ last'.handler = "disconnect"
                   /\ u = DisconnectKey(last'.sid)
                   /\ r = FirstRoomWith(users_in_rooms, u)
                   /\ NameIn(users_in_rooms', r, u) = None
       /\ JoinStarted'
             => /\ NameIn(users_in_rooms', last'.data.room, last'.data.userId)
                      = last'.data.username
                /\ \A t \in BagToSet(tasks) :
                      (/\ t.handler = "join_room"
                       /\ t.data.room = last'.data.room
                       /\ IsMember(users_in_rooms, t.data.room, t.data.userId))
                      => IsMember(users_in_rooms', t.data.room, t.data.userId)
       /\ (last'.handler = "leave_room" /\ LeaveValid(last'.data))
             => ~IsMember(users_in_rooms', last'.data.room, last'.data.userId)]_vars

\* The join_room handlers of two connections, for two users and one room,
\* are both waiting for their history, and both users are recorded.
C19_Witness ==
    /\ \E t1, t2 \in BagToSet(tasks) :
          /\ t1.handler = "join_room" /\ t2.handler = "join_room"
          /\ t1.sid = "c1" /\ t2.sid = "c2"
          /\ t1.data.room = "r1" /\ t2.data.room = "r1"
          /\ t1.data.userId = "u1" /\ t2.data.userId = "c1"
    /\ DOMAIN UsersOf(users_in_rooms, "r1") = {"u1", "c1"}
    /\ last.status = "suspended"

\* C20: membership and subscription stay consistent.  From the state in
\* which a connection has just registered (room, user), whatever event is
\* handled next, the entry is there exactly when that connection is still
\* open and still subscribed to the room, and a request of another
\* connection does not remove it.
C20_MembershipMatchesSubscription ==
    [][JoinStarted
        => /\ IsMember(users_in_rooms', last.data.room, last.data.userId)
                 <=> (conn'[last.sid] = "open" /\ last.data.room \in subs'[last.sid])
           /\ last'.sid # last.sid
                 => IsMember(users_in_rooms', last.data.room, last.data.userId)]_vars
====
